---------------------------- MODULE Spec2Model ----------------------------
(***************************************************************************)
(* A state-machine model of resources/templates/python_script.py.          *)
(*                                                                         *)
(* The file is a list of module-level statements that the interpreter      *)
(* executes top to bottom, once.  One action models one statement.  The    *)
(* same file is executed in two ways: run directly (__name__ is bound to   *)
(* "__main__") or imported (__name__ is bound to the module's own name).   *)
(***************************************************************************)
EXTENDS Integers, Sequences, FiniteSets, TLC

VARIABLES
    pc,          \* the statement the interpreter executes next
    globals,     \* the module namespace: a function from bound names to values
    argv,        \* command-line arguments of the process (reachable as sys.argv)
    environ,     \* names of the environment variables that are set
    stdout,      \* what has been written to standard output
    stderr,      \* what has been written to standard error
    status,      \* {} while the process runs, {n} once it ended with status n
    exitCalled   \* TRUE once exit(...) has been called

vars == <<pc, globals, argv, environ, stdout, stderr, status, exitCalled>>

---------------------------------------------------------------------------
(* Inputs of an execution.                                                 *)

\* Longest command line that is enumerated.
MaxArgs == 2

\* Words a command line is made of.
ArgWords == {"-h", "file.txt"}

\* Environment variables that may be set.
EnvNames == {"HOME", "DEBUG"}

\* Name of the module when the file is imported rather than run.
ImportedName == "python_script"

\* Values __name__ can be bound to when the file starts executing.
ModuleNames == {"__main__", ImportedName}

ArgLists == UNION {[1..n -> ArgWords] : n \in 0..MaxArgs}

---------------------------------------------------------------------------
(* Values the statements bind.                                             *)

\* The module docstring (its first sentence; the text runs on for seven
\* more lines, none of which is ever inspected by the file itself).
DOCSTRING ==
    " This is a docstring that explains what the script/module/function/class does and it used by convention in Python (PEP 257)"

\* What "import sys" binds: the sys module, through which argv is reachable.
SysModule == [module |-> "sys", argv |-> argv]

\* What "import re" binds.
ReModule == [module |-> "re"]

MY_CONSTANT == "Your constant value"

\* Bind(ns, name, value): the namespace after the assignment name = value.
Bind(ns, name, value) ==
    [n \in DOMAIN ns \cup {name} |-> IF n = name THEN value ELSE ns[n]]

Bound(name) == name \in DOMAIN globals

---------------------------------------------------------------------------
Init ==
    /\ pc = "docstring"
    /\ globals \in {("__name__" :> n) : n \in ModuleNames}
    /\ argv \in ArgLists
    /\ environ \in SUBSET EnvNames
    /\ stdout = <<>>
    /\ stderr = <<>>
    /\ status = {}
    /\ exitCalled = FALSE

\* Docstring with an empty docstring literal.
DocstringEmpty ==
    /\ pc = "docstring"
    /\ globals' = Bind(globals, "__doc__", "")
    /\ pc' = "import_sys"
    /\ UNCHANGED <<argv, environ, stdout, stderr, status, exitCalled>>

\* Lines 2-9: the docstring expression binds __doc__.
Docstring ==
    /\ pc = "docstring"
    /\ globals' = Bind(globals, "__doc__", DOCSTRING)
    /\ pc' = "import_sys"
    /\ UNCHANGED <<argv, environ, stdout, stderr, status, exitCalled>>

\* Line 22: import sys
ImportSys ==
    /\ pc = "import_sys"
    /\ globals' = Bind(globals, "sys", SysModule)
    /\ pc' = "import_re"
    /\ UNCHANGED <<argv, environ, stdout, stderr, status, exitCalled>>

\* ImportRe with the constant declaration moved out of its place, so that
\* the guard follows the imports directly.
ImportReSkipsConstant ==
    /\ pc = "import_re"
    /\ globals' = Bind(globals, "re", ReModule)
    /\ pc' = "guard"
    /\ UNCHANGED <<argv, environ, stdout, stderr, status, exitCalled>>

\* Line 23: import re
ImportRe ==
    /\ pc = "import_re"
    /\ globals' = Bind(globals, "re", ReModule)
    /\ pc' = "constant"
    /\ UNCHANGED <<argv, environ, stdout, stderr, status, exitCalled>>

\* Line 27: MY_CONSTANT="Your constant value"
Constant ==
    /\ pc = "constant"
    /\ globals' = Bind(globals, "MY_CONSTANT", MY_CONSTANT)
    /\ pc' = "guard"
    /\ UNCHANGED <<argv, environ, stdout, stderr, status, exitCalled>>

\* Guard with the test dropped: the block runs on import too.
GuardAlways ==
    /\ pc = "guard"
    /\ pc' = "init_flag"
    /\ UNCHANGED <<globals, argv, environ, stdout, stderr, status, exitCalled>>

\* Line 30: if __name__ == "__main__":  When the test fails the block is
\* skipped, the end of the file is reached and the import is complete.
Guard ==
    /\ pc = "guard"
    /\ pc' = IF globals["__name__"] = "__main__" THEN "init_flag" ELSE "loaded"
    /\ UNCHANGED <<globals, argv, environ, stdout, stderr, status, exitCalled>>

\* InitFlag initialising the flag to True.
InitFlagTrue ==
    /\ pc = "init_flag"
    /\ globals' = Bind(globals, "some_error_happened", TRUE)
    /\ pc' = "branch"
    /\ UNCHANGED <<argv, environ, stdout, stderr, status, exitCalled>>

\* InitFlag deriving the flag from the command line (len(sys.argv) > 0
\* counted over the arguments).
InitFlagFromArgv ==
    /\ pc = "init_flag"
    /\ globals' = Bind(globals, "some_error_happened", Len(globals["sys"].argv) > 0)
    /\ pc' = "branch"
    /\ UNCHANGED <<argv, environ, stdout, stderr, status, exitCalled>>

\* InitFlag that also rebinds the constant.
InitFlagRebindsConstant ==
    /\ pc = "init_flag"
    /\ globals' = Bind(Bind(globals, "some_error_happened", FALSE),
                       "MY_CONSTANT", "")
    /\ pc' = "branch"
    /\ UNCHANGED <<argv, environ, stdout, stderr, status, exitCalled>>

\* Line 32: some_error_happened=False
InitFlag ==
    /\ pc = "init_flag"
    /\ globals' = Bind(globals, "some_error_happened", FALSE)
    /\ pc' = "branch"
    /\ UNCHANGED <<argv, environ, stdout, stderr, status, exitCalled>>

\* Branch whose body does not exit (e.g. pass): control falls through.
BranchNoExit ==
    /\ pc = "branch"
    /\ pc' = "eof"
    /\ UNCHANGED <<globals, argv, environ, stdout, stderr, status, exitCalled>>

\* Branch exiting with another status.
BranchExitTwo ==
    /\ pc = "branch"
    /\ IF globals["some_error_happened"]
         THEN /\ exitCalled' = TRUE
              /\ status' = {2}
              /\ pc' = "terminated"
         ELSE /\ pc' = "eof"
              /\ UNCHANGED <<status, exitCalled>>
    /\ UNCHANGED <<globals, argv, environ, stdout, stderr>>

\* Branch turned into a retry loop: on the false path control goes back to
\* the initialisation of the flag.
BranchLoops ==
    /\ pc = "branch"
    /\ IF globals["some_error_happened"]
         THEN /\ exitCalled' = TRUE
              /\ status' = {1}
              /\ pc' = "terminated"
         ELSE /\ pc' = "init_flag"
              /\ UNCHANGED <<status, exitCalled>>
    /\ UNCHANGED <<globals, argv, environ, stdout, stderr>>

\* Lines 34-35: if some_error_happened: exit(1).  exit(1) ends the process
\* with status 1 at once; otherwise control falls through to the end of file.
Branch ==
    /\ pc = "branch"
    /\ IF globals["some_error_happened"]
         THEN /\ exitCalled' = TRUE
              /\ status' = {1}
              /\ pc' = "terminated"
         ELSE /\ pc' = "eof"
              /\ UNCHANGED <<status, exitCalled>>
    /\ UNCHANGED <<globals, argv, environ, stdout, stderr>>

\* EndOfFile with an explicit exit(0) added.
EndOfFileExplicitExit ==
    /\ pc = "eof"
    /\ status' = {0}
    /\ exitCalled' = TRUE
    /\ pc' = "terminated"
    /\ UNCHANGED <<globals, argv, environ, stdout, stderr>>

\* Lines 36-37: the end of the file is reached in a direct run; the
\* interpreter returns 0 to the OS, no exit call being made.
EndOfFile ==
    /\ pc = "eof"
    /\ status' = {0}
    /\ pc' = "terminated"
    /\ UNCHANGED <<globals, argv, environ, stdout, stderr, exitCalled>>

Next ==
    \/ Docstring
    \/ ImportSys
    \/ ImportRe
    \/ Constant
    \/ Guard
    \/ InitFlag
    \/ Branch
    \/ EndOfFile

Spec == Init /\ [][Next]_vars

\* The interpreter is single-threaded and executes one statement after the
\* other without waiting for anything: an enabled statement is executed.
FairSpec == Spec /\ WF_vars(Next)

---------------------------------------------------------------------------
(* The template as extended by an implementer at "Your script starts       *)
(* here...": a step between the initialisation of the flag and the branch  *)
(* records that an error happened.                                         *)

InsertedStep ==
    /\ pc = "branch"
    /\ globals["some_error_happened"] = FALSE
    /\ globals' = Bind(globals, "some_error_happened", TRUE)
    /\ UNCHANGED <<pc, argv, environ, stdout, stderr, status, exitCalled>>

NextExt ==
    \/ Next
    \/ InsertedStep

SpecExt == Init /\ [][NextExt]_vars

---------------------------------------------------------------------------
(* Vocabulary of the properties.                                           *)

Direct == globals["__name__"] = "__main__"

Imported == globals["__name__"] # "__main__"

\* Positions inside the entry-point block, and the end of a direct run.
EntryPointPcs == {"init_flag", "branch", "eof", "terminated"}

\* Positions at which the branch has been reached or passed.
BranchPcs == {"branch", "eof", "terminated"}

\* The positions in the order in which they occur in the file; the two
\* final positions come last.
PcOrder ==
    <<"docstring", "import_sys", "import_re", "constant", "guard",
      "init_flag", "branch", "eof", "loaded", "terminated">>

\* Pos(p): the place of position p in that order.
Pos(p) == CHOOSE i \in DOMAIN PcOrder : PcOrder[i] = p

---------------------------------------------------------------------------
\* C1: a direct run of the template (flag left at False) writes nothing to
\* standard output or standard error at any point, and when it has ended its
\* exit status is 0 and no exit call was made: the branch body was skipped
\* and the end of the file was reached.
C1_DirectRunExitsZeroSilently ==
    Direct =>
        /\ stdout = <<>>
        /\ stderr = <<>>
        /\ pc = "terminated" =>
              /\ globals["some_error_happened"] = FALSE
              /\ status = {0}
              /\ ~exitCalled

C1_Witness ==
    /\ Direct
    /\ pc = "terminated"
    /\ status = {0}
    /\ ~exitCalled

\* C2: when the file is imported the flag is never initialised, the branch
\* is never reached and exit is never called; the positions of the
\* entry-point block are reached in a direct run only.
C2_EntryPointOnlyWhenDirect ==
    /\ Imported =>
          /\ ~Bound("some_error_happened")
          /\ pc \notin EntryPointPcs
          /\ ~exitCalled
          /\ status = {}
    /\ (pc \in EntryPointPcs \/ Bound("some_error_happened")) => Direct

C2_Witness ==
    /\ Imported
    /\ pc = "loaded"
    /\ ~Bound("some_error_happened")

\* C3: in a direct run where the flag is True when the branch is evaluated,
\* the process has ended with status 1 through the exit call, and no
\* statement can run after it.
C3_TrueFlagExitsOne ==
    (Direct /\ pc \in BranchPcs \ {"branch"} /\ globals["some_error_happened"]) =>
        /\ pc = "terminated"
        /\ status = {1}
        /\ exitCalled
        /\ ~ENABLED NextExt

C3_Witness ==
    /\ Direct
    /\ pc = "terminated"
    /\ exitCalled
    /\ status = {1}
    /\ globals["some_error_happened"] = TRUE

\* C4: in the template as written the flag is False in every state in which
\* it is bound, exit is never called and no run, direct or imported, ends
\* with status 1.
C4_ExitOneUnreachable ==
    /\ Bound("some_error_happened") => globals["some_error_happened"] = FALSE
    /\ ~exitCalled
    /\ 1 \notin status

C4_Witness ==
    /\ pc = "eof"
    /\ globals["some_error_happened"] = FALSE
    /\ status = {}

\* C5: from its declaration on, in direct runs and imports alike, MY_CONSTANT
\* is bound and its value is the string "Your constant value".
C5_ConstantIsFixed ==
    /\ Bound("MY_CONSTANT") => globals["MY_CONSTANT"] = "Your constant value"
    /\ Pos(pc) > Pos("constant") => Bound("MY_CONSTANT")

C5_Witness ==
    /\ pc \in {"terminated", "loaded"}
    /\ Bound("MY_CONSTANT")
    /\ globals["MY_CONSTANT"] = "Your constant value"
    /\ Cardinality(DOMAIN globals) >= 5

\* C6: when an import has completed the process is still running, nothing
\* has been written, exit has not been called, the docstring is bound and
\* non-empty, and the namespace holds, besides __name__, exactly the
\* docstring, the two imported modules and the constant.
C6_ImportHasNoSideEffects ==
    (Imported /\ pc = "loaded") =>
        /\ status = {}
        /\ ~exitCalled
        /\ stdout = <<>>
        /\ stderr = <<>>
        /\ Bound("__doc__")
        /\ globals["__doc__"] # ""
        /\ DOMAIN globals = {"__name__", "__doc__", "sys", "re", "MY_CONSTANT"}

C6_Witness ==
    /\ Imported
    /\ pc = "loaded"
    /\ Bound("__doc__")
    /\ status = {}

\* C7: every step moves forward in the file (no loop), and every execution
\* reaches its end: a direct run ends with an exit status, an import ends
\* with the module loaded.
C7_RunsToCompletion ==
    /\ [][Pos(pc') > Pos(pc)]_vars
    /\ <>(\/ Direct /\ pc = "terminated" /\ status # {}
          \/ Imported /\ pc = "loaded")

C7_Witness ==
    /\ pc \in {"terminated", "loaded"}
    /\ ~ENABLED Next
    /\ Direct => status # {}

\* C8: whatever the command-line arguments and the environment, a direct
\* run ends with the same exit status, the same (empty) output and the same
\* values of MY_CONSTANT and some_error_happened; so any two direct runs
\* that differ in arguments and environment only end alike.
C8_OutcomeIgnoresArgsAndEnv ==
    (Direct /\ pc = "terminated") =>
        <<status, stdout, stderr,
          globals["MY_CONSTANT"], globals["some_error_happened"]>>
            = <<{0}, <<>>, <<>>, "Your constant value", FALSE>>

C8_Witness ==
    /\ Direct
    /\ pc = "terminated"
    /\ Len(argv) = MaxArgs
    /\ environ = EnvNames
    /\ globals["sys"].argv = argv

\* C9: the docstring is bound before the constant, the constant before the
\* flag, and the flag before the branch is evaluated: whenever the branch is
\* reached the flag is bound to False and the constant and the docstring are
\* bound.
C9_FixedOrder ==
    /\ Bound("MY_CONSTANT") => Bound("__doc__")
    /\ Bound("some_error_happened") => Bound("MY_CONSTANT")
    /\ pc \in BranchPcs =>
          /\ Bound("some_error_happened")
          /\ globals["some_error_happened"] = FALSE
          /\ Bound("MY_CONSTANT")
          /\ Bound("__doc__")

C9_Witness ==
    /\ Direct
    /\ pc = "branch"
    /\ DOMAIN globals =
          {"__name__", "__doc__", "sys", "re", "MY_CONSTANT", "some_error_happened"}

\* C10: the exit status of a run is 0 or 1, and it is 1 exactly when the
\* flag was True when the branch was evaluated.
C10_StatusIsFunctionOfFlag ==
    /\ status \subseteq {0, 1}
    /\ status # {} =>
          /\ Direct
          /\ Bound("some_error_happened")
          /\ (1 \in status) <=> globals["some_error_happened"]
          /\ (0 \in status) <=> ~globals["some_error_happened"]

C10_Witness ==
    /\ status = {1}
    /\ pc = "terminated"
    /\ Len(argv) > 0

=============================================================================
